---- MODULE Spec2Model ----
(***************************************************************************)
(* Realtime presence registry and call-signaling relay of the chat         *)
(* backend: the socket.io blocks of the messages service (UserConnections  *)
(* and its handlers) and of the users service (onlineUsers and its         *)
(* handlers).  One behaviour follows one server process; `service` says    *)
(* which of the two programs that process runs.                            *)
(***************************************************************************)
EXTENDS Integers, Sequences, FiniteSets, TLC

\* ---------------------------------------------------------------- bounds
\* Date.now() is read from a clock that takes the values 0..MaxTime.
MaxTime == 1
\* callUser is not taken once the registry stores MaxCalls sessions.
MaxCalls == 2

\* ------------------------------------------------------- input domains
Principals == {1, 2, 3}
Sockets == {"s1", "s2", "s3"}
\* The principals whose credentials the client behind each transport holds:
\* s2 is opened from a device on which principals 1 and 2 have both logged
\* in, so principal 1 can hold two connections at once and three principals
\* can be connected together.
ClientPrincipal == [s \in Sockets |-> IF s = "s1" THEN {1}
                                      ELSE IF s = "s2" THEN {1, 2} ELSE {3}]
CallTypes == {"video"}
Offers == {"sdp1"}
Answers == {"sdp2", "sdp3"}
Candidates == {"ice1", "ice2"}
Contents == {"hello"}
NoUser == 0
NoCallId == << >>
NoReason == ""
ClientReasons == {NoReason, "BUSY"}

\* handshake.auth.token: absent, signed with another secret, or signed
\* with JWT_SECRET for principal u.
NoToken == [user |-> NoUser, sig |-> "absent"]
TokensOf(us) == {NoToken} \cup [user : us, sig : {"forged", "valid"}]

\* service      which server.js the process runs: "messages" or "users"
\* sockets      per transport: status (new, connected, closed, rejected) and
\*              socket.user as set by the handshake middleware
\* connections  connectedUsers.connections: principal -> [socket, calls]
\* onlineUsers  the users service's Map: principal -> socket
\* now          the value Date.now() returns
\* emitted      notifications pushed by the handler that has just run
\* last         the event that handler was dispatched for
VARIABLES service, sockets, connections, onlineUsers, now, emitted, last

vars == <<service, sockets, connections, onlineUsers, now, emitted, last>>

\* ------------------------------------------------------------- helpers
\* jwt.decode in place of jwt.verify: the signature is not looked at.
JwtDecode(token) == token.user

\* jwt.verify(token, JWT_SECRET, cb): cb(err) unless the signature is ours,
\* cb(null, user) with the principal the token carries otherwise.
JwtVerify(token) == IF token.sig = "valid" THEN token.user ELSE NoUser

\* `${caller}-${callee}-${Date.now()}`
\* A call ID minted from the callee and the clock only.
MakeCallIdNoCaller(caller, callee, t) == <<NoUser, callee, t>>

MakeCallId(caller, callee, t) == <<caller, callee, t>>

\* handle.emit(event, payload): one notification pushed to one transport.
Emit(to, event, payload) == [to |-> to, event |-> event, payload |-> payload]

\* Map.prototype.set / delete on a map kept as a function.
MapSet(m, k, v) == [x \in DOMAIN m \cup {k} |-> IF x = k THEN v ELSE m[x]]
MapDelete(m, k) == [x \in DOMAIN m \ {k} |-> m[x]]

\* A call set is a JS Map kept as the sequence of its entries in insertion
\* order (the order forEach visits them).
CallIndex(calls, callId) == {i \in 1..Len(calls) : calls[i].callId = callId}
CallsHas(calls, callId) == CallIndex(calls, callId) # {}
CallsGet(calls, callId) == calls[CHOOSE i \in CallIndex(calls, callId) : TRUE]
\* A call set that holds the newest session only.
CallsSetSingle(calls, callId, data) ==
    << [callId |-> callId, otherParticipantId |-> data.otherParticipantId,
        type |-> data.type, startTime |-> data.startTime] >>

CallsSet(calls, callId, data) ==
    LET e == [callId |-> callId, otherParticipantId |-> data.otherParticipantId,
              type |-> data.type, startTime |-> data.startTime]
    IN IF CallsHas(calls, callId)
       THEN [i \in 1..Len(calls) |-> IF calls[i].callId = callId THEN e ELSE calls[i]]
       ELSE Append(calls, e)
CallsDelete(calls, callId) == SelectSeq(calls, LAMBDA e : e.callId # callId)

\* ------------------------------------------- UserConnections (messages)
\* add(userId, socket) that keeps the entry a principal already has.
AddKeepFirst(conns, userId, socket) ==
    IF userId \in DOMAIN conns THEN conns
    ELSE MapSet(conns, userId, [socket |-> socket, calls |-> << >>])

\* add(userId, socket): a fresh entry with an empty call set overwrites
\* whatever was stored under userId.  (The entry's timestamp is never read.)
\* add(userId, socket) carrying the call set of the entry it replaces over to
\* the new one.
AddKeepCalls(conns, userId, socket) ==
    MapSet(conns, userId,
           [socket |-> socket,
            calls |-> IF userId \in DOMAIN conns THEN conns[userId].calls ELSE << >>])

Add(conns, userId, socket) == MapSet(conns, userId, [socket |-> socket, calls |-> << >>])

\* get(userId) !== undefined
Has(conns, userId) == userId \in DOMAIN conns

\* addCall(userId, callId, data)
AddCall(conns, userId, callId, data) ==
    IF Has(conns, userId)
    THEN MapSet(conns, userId,
                [conns[userId] EXCEPT !.calls = CallsSet(@, callId, data)])
    ELSE conns

\* endCall(userId, callId) that ends the oldest call of the set when the
\* call ID is not one of its keys.
EndCallOrOldest(conns, userId, callId) ==
    IF userId \in DOMAIN conns /\ conns[userId].calls # << >>
    THEN LET callData == IF CallsHas(conns[userId].calls, callId)
                         THEN CallsGet(conns[userId].calls, callId)
                         ELSE conns[userId].calls[1]
             other == callData.otherParticipantId
         IN [conns |-> MapSet(conns, userId,
                         [conns[userId] EXCEPT !.calls = CallsDelete(@, callData.callId)]),
             out |-> IF other \in DOMAIN conns
                     THEN << Emit(conns[other].socket, "callEnded",
                                  [from |-> userId, reason |-> "REMOTE_ENDED"]) >>
                     ELSE << >>]
    ELSE [conns |-> conns, out |-> << >>]

\* endCall(userId, callId) that looks the call ID up in the call set of every
\* principal, not only in the sender's own.
EndCallAnyOwner(conns, userId, callId) ==
    IF \E u \in DOMAIN conns : CallsHas(conns[u].calls, callId)
    THEN LET owner == CHOOSE u \in DOMAIN conns : CallsHas(conns[u].calls, callId)
             other == CallsGet(conns[owner].calls, callId).otherParticipantId
         IN [conns |-> MapSet(conns, owner,
                         [conns[owner] EXCEPT !.calls = CallsDelete(@, callId)]),
             out |-> IF other \in DOMAIN conns
                     THEN << Emit(conns[other].socket, "callEnded",
                                  [from |-> userId, reason |-> "REMOTE_ENDED"]) >>
                     ELSE << >>]
    ELSE [conns |-> conns, out |-> << >>]

\* endCall(userId, callId): the registry afterwards and the notifications
\* pushed, in order.
EndCall(conns, userId, callId) ==
    IF Has(conns, userId) /\ CallsHas(conns[userId].calls, callId)
    THEN LET callData == CallsGet(conns[userId].calls, callId)
             other == callData.otherParticipantId
         IN [conns |-> MapSet(conns, userId,
                         [conns[userId] EXCEPT !.calls = CallsDelete(@, callId)]),
             out |-> IF Has(conns, other)
                     THEN << Emit(conns[other].socket, "callEnded",
                                  [from |-> userId, reason |-> "REMOTE_ENDED"]) >>
                     ELSE << >>]
    ELSE [conns |-> conns, out |-> << >>]

\* connection.calls.forEach((call, callId) => this.endCall(userId, callId))
RECURSIVE EndCalls(_, _, _, _)
EndCalls(conns, userId, ids, out) ==
    IF ids = << >>
    THEN [conns |-> conns, out |-> out]
    ELSE LET r == EndCall(conns, userId, Head(ids))
         IN EndCalls(r.conns, userId, Tail(ids), out \o r.out)

\* remove(userId) that deletes the entry without ending its calls.
RemoveNoCascade(conns, userId) ==
    [conns |-> MapDelete(conns, userId), out |-> << >>]

\* remove(userId) that notifies the callees but forgets both deletes.
RemoveNotifyOnly(conns, userId) ==
    IF userId \in DOMAIN conns
    THEN [conns |-> conns,
          out |-> EndCalls(conns, userId,
                           [i \in 1..Len(conns[userId].calls) |->
                               conns[userId].calls[i].callId], << >>).out]
    ELSE [conns |-> conns, out |-> << >>]

\* remove(userId)
Remove(conns, userId) ==
    IF Has(conns, userId)
    THEN LET ids == [i \in 1..Len(conns[userId].calls) |-> conns[userId].calls[i].callId]
             r == EndCalls(conns, userId, ids, << >>)
         IN [conns |-> MapDelete(r.conns, userId), out |-> r.out]
    ELSE [conns |-> conns, out |-> << >>]

\* Number of sessions stored in the whole registry.
RECURSIVE TotalCalls(_)
TotalCalls(conns) ==
    IF DOMAIN conns = {} THEN 0
    ELSE LET u == CHOOSE x \in DOMAIN conns : TRUE
         IN Len(conns[u].calls) + TotalCalls(MapDelete(conns, u))

\* Call IDs a client can put into an endCall event: every stored one and
\* one that was never minted.
UnknownCallId == <<NoUser, NoUser, 0>>
StoredCallIds ==
    UNION {{connections[u].calls[i].callId : i \in 1..Len(connections[u].calls)} :
              u \in DOMAIN connections}

Connected(s) == sockets[s].status = "connected"

NoEvent == [op |-> "idle", socket |-> "", data |-> << >>, before |-> << >>]

\* ---------------------------------------------------------------- Init
Init ==
    /\ service \in {"messages", "users"}
    /\ sockets = [s \in Sockets |-> [status |-> "new", user |-> NoUser]]
    /\ connections = << >>
    /\ onlineUsers = << >>
    /\ now = 0
    /\ emitted = << >>
    /\ last = NoEvent

\* A handler runs to completion before the event loop dispatches the next
\* event: `last` is the event whose handler has just run and `emitted` the
\* notifications it pushed, until the handler returns.  `last.before` keeps
\* connectedUsers.connections as the handler found it.
Idle == last.op = "idle"
Step(op, s, data) ==
    last' = [op |-> op, socket |-> s, data |-> data, before |-> connections]

\* The handler returns to the event loop; what it pushed is on the wire.
Return ==
    /\ ~Idle
    /\ last' = NoEvent
    /\ emitted' = << >>
    /\ UNCHANGED <<service, sockets, connections, onlineUsers, now>>

\* The clock read by Date.now() advances.
Tick ==
    /\ Idle
    /\ now < MaxTime
    /\ now' = now + 1
    /\ UNCHANGED <<service, sockets, connections, onlineUsers, emitted, last>>

\* ------------------------------------------------- messages service
\* io.use(authenticateSocketToken) followed by io.on('connection').
Connect(s, token) ==
    /\ Idle
    /\ service = "messages"
    /\ sockets[s].status = "new"
    /\ IF token.sig = "absent" \/ JwtVerify(token) = NoUser
       THEN /\ sockets' = [sockets EXCEPT ![s].status = "rejected"]
            /\ UNCHANGED connections
       ELSE /\ sockets' = [sockets EXCEPT ![s] = [status |-> "connected",
                                                  user |-> JwtVerify(token)]]
            /\ connections' = Add(connections, JwtVerify(token), s)
    /\ emitted' = << >>
    /\ Step("connect", s, [token |-> token])
    /\ UNCHANGED <<service, onlineUsers, now>>

\* The callUser handler dropping the event when the callee is not registered.
OnCallUserSilent(conns, s, user, data, t) ==
    IF data.userToCall \in DOMAIN conns
    THEN LET callId == MakeCallId(user, data.userToCall, t)
         IN [conns |-> AddCall(conns, user, callId,
                               [otherParticipantId |-> data.userToCall,
                                type |-> data.callType, startTime |-> t]),
             out |-> << Emit(conns[data.userToCall].socket, "callIncoming",
                             [callId |-> callId, signal |-> data.signalData,
                              from |-> data.from, callType |-> data.callType]) >>]
    ELSE [conns |-> conns, out |-> << >>]

\* The body of socket.on('callUser') for the socket s of principal user at
\* clock reading t: the registry afterwards and the notifications pushed.
OnCallUser(conns, s, user, data, t) ==
    IF Has(conns, data.userToCall)
    THEN LET callId == MakeCallId(user, data.userToCall, t)
         IN [conns |-> AddCall(conns, user, callId,
                               [otherParticipantId |-> data.userToCall,
                                type |-> data.callType, startTime |-> t]),
             out |-> << Emit(conns[data.userToCall].socket, "callIncoming",
                             [callId |-> callId, signal |-> data.signalData,
                              from |-> data.from, callType |-> data.callType]) >>]
    ELSE [conns |-> conns,
          out |-> << Emit(s, "callFailed",
                          [error |-> "USER_UNAVAILABLE",
                           message |-> "L'utilisateur n'est pas connecte"]) >>]

\* socket.on('callUser')
CallUser(s, data) ==
    /\ Idle
    /\ service = "messages"
    /\ Connected(s)
    /\ Has(connections, data.userToCall) => TotalCalls(connections) < MaxCalls
    /\ LET r == OnCallUser(connections, s, sockets[s].user, data, now)
       IN /\ connections' = r.conns
          /\ emitted' = r.out
    /\ Step("callUser", s, data)
    /\ UNCHANGED <<service, sockets, onlineUsers, now>>

\* An answerCall handler that pushes the answer back on the sender's own
\* connection.
AnswerCallEcho(s, data) ==
    /\ Idle
    /\ service = "messages"
    /\ Connected(s)
    /\ emitted' = << Emit(s, "callAnswered",
                          [signal |-> data.signal, from |-> sockets[s].user]) >>
    /\ Step("answerCall", s, data)
    /\ UNCHANGED <<service, sockets, connections, onlineUsers, now>>

\* socket.on('answerCall')
AnswerCall(s, data) ==
    /\ Idle
    /\ service = "messages"
    /\ Connected(s)
    /\ emitted' = IF Has(connections, data.to)
                  THEN << Emit(connections[data.to].socket, "callAnswered",
                               [signal |-> data.signal, from |-> sockets[s].user]) >>
                  ELSE << >>
    /\ Step("answerCall", s, data)
    /\ UNCHANGED <<service, sockets, connections, onlineUsers, now>>

\* A callCandidate handler that relays only while the sender holds a session
\* with the target or the target holds one with the sender.
CallCandidateGated(s, data) ==
    /\ Idle
    /\ service = "messages"
    /\ Connected(s)
    /\ emitted' = IF /\ Has(connections, data.to)
                     /\ \E u \in DOMAIN connections : \E i \in 1..Len(connections[u].calls) :
                           {u, connections[u].calls[i].otherParticipantId}
                              = {sockets[s].user, data.to}
                  THEN << Emit(connections[data.to].socket, "callCandidate",
                               [candidate |-> data.candidate, from |-> sockets[s].user]) >>
                  ELSE << >>
    /\ Step("callCandidate", s, data)
    /\ UNCHANGED <<service, sockets, connections, onlineUsers, now>>

\* socket.on('callCandidate')
CallCandidate(s, data) ==
    /\ Idle
    /\ service = "messages"
    /\ Connected(s)
    /\ emitted' = IF Has(connections, data.to)
                  THEN << Emit(connections[data.to].socket, "callCandidate",
                               [candidate |-> data.candidate, from |-> sockets[s].user]) >>
                  ELSE << >>
    /\ Step("callCandidate", s, data)
    /\ UNCHANGED <<service, sockets, connections, onlineUsers, now>>

\* socket.on('endCall')
EndCallEvent(s, data) ==
    /\ Idle
    /\ service = "messages"
    /\ Connected(s)
    /\ IF data.callId # NoCallId
       THEN LET r == EndCall(connections, sockets[s].user, data.callId)
            IN /\ connections' = r.conns
               /\ emitted' = r.out
       ELSE /\ UNCHANGED connections
            /\ emitted' = IF Has(connections, data.to)
                          THEN << Emit(connections[data.to].socket, "callEnded",
                                       [from |-> sockets[s].user,
                                        reason |-> IF data.reason # NoReason
                                                   THEN data.reason ELSE "NORMAL"]) >>
                          ELSE << >>
    /\ Step("endCall", s, data)
    /\ UNCHANGED <<service, sockets, onlineUsers, now>>

\* socket.on('disconnect')
Disconnect(s) ==
    /\ Idle
    /\ service = "messages"
    /\ Connected(s)
    /\ LET r == Remove(connections, sockets[s].user)
       IN /\ connections' = r.conns
          /\ emitted' = r.out
    /\ sockets' = [sockets EXCEPT ![s].status = "closed"]
    /\ Step("disconnect", s, << >>)
    /\ UNCHANGED <<service, onlineUsers, now>>

\* An error handler that logs the error and cleans nothing up.
SocketErrorLogsOnly(s) ==
    /\ Idle
    /\ service = "messages"
    /\ Connected(s)
    /\ emitted' = << >>
    /\ Step("error", s, << >>)
    /\ UNCHANGED <<service, sockets, connections, onlineUsers, now>>

\* socket.on('error'): the transport stays open.
SocketError(s) ==
    /\ Idle
    /\ service = "messages"
    /\ Connected(s)
    /\ LET r == Remove(connections, sockets[s].user)
       IN /\ connections' = r.conns
          /\ emitted' = r.out
    /\ Step("error", s, << >>)
    /\ UNCHANGED <<service, sockets, onlineUsers, now>>

\* socket.broadcast.emit / io.emit: one notification to every connected
\* socket but `except`.  Notifications to different transports are not
\* ordered against each other; they are listed in the order of SocketOrder.
SocketOrder == <<"s1", "s2", "s3">>
Broadcast(socks, except, event, payload) ==
    LET targets == SelectSeq(SocketOrder,
                             LAMBDA t : socks[t].status = "connected" /\ t # except)
    IN [i \in 1..Len(targets) |-> Emit(targets[i], event, payload)]

\* socket.on('sendMessage')
SendMessage(s, message) ==
    /\ Idle
    /\ service = "messages"
    /\ Connected(s)
    /\ emitted' = Broadcast(sockets, s, "newMessage", message)
    /\ Step("sendMessage", s, message)
    /\ UNCHANGED <<service, sockets, connections, onlineUsers, now>>

\* app.post('/api/messages', authenticateToken, ...): the request carries a
\* bearer token; `saved` says whether msg.save() (and populate) succeeded.
PostMessage(data) ==
    /\ Idle
    /\ service = "messages"
    /\ emitted' = IF JwtVerify(data.token) # NoUser /\ data.saved
                  THEN Broadcast(sockets, "", "newMessage",
                                 [content |-> data.content,
                                  senderId |-> JwtVerify(data.token)])
                  ELSE << >>
    /\ Step("postMessage", "", data)
    /\ UNCHANGED <<service, sockets, connections, onlineUsers, now>>

\* ---------------------------------------------------- users service
\* io.use(...) followed by io.on('connection'): onlineUsers.set
UsersConnect(s, token) ==
    /\ Idle
    /\ service = "users"
    /\ sockets[s].status = "new"
    /\ IF token.sig = "absent" \/ JwtVerify(token) = NoUser
       THEN /\ sockets' = [sockets EXCEPT ![s].status = "rejected"]
            /\ UNCHANGED onlineUsers
       ELSE /\ sockets' = [sockets EXCEPT ![s] = [status |-> "connected",
                                                  user |-> JwtVerify(token)]]
            /\ onlineUsers' = MapSet(onlineUsers, JwtVerify(token), s)
    /\ emitted' = << >>
    /\ Step("connect", s, [token |-> token])
    /\ UNCHANGED <<service, connections, now>>

\* socket.on('callUser') of the users service
UsersCallUser(s, data) ==
    /\ Idle
    /\ service = "users"
    /\ Connected(s)
    /\ emitted' = IF data.targetUserId \in DOMAIN onlineUsers
                  THEN << Emit(onlineUsers[data.targetUserId], "incomingCall",
                               [from |-> sockets[s].user, offer |-> data.offer]) >>
                  ELSE << >>
    /\ Step("callUser", s, data)
    /\ UNCHANGED <<service, sockets, connections, onlineUsers, now>>

\* socket.on('answerCall') of the users service
UsersAnswerCall(s, data) ==
    /\ Idle
    /\ service = "users"
    /\ Connected(s)
    /\ emitted' = IF data.targetUserId \in DOMAIN onlineUsers
                  THEN << Emit(onlineUsers[data.targetUserId], "callAnswered",
                               [from |-> sockets[s].user, answer |-> data.answer]) >>
                  ELSE << >>
    /\ Step("answerCall", s, data)
    /\ UNCHANGED <<service, sockets, connections, onlineUsers, now>>

\* socket.on('iceCandidate') of the users service
UsersIceCandidate(s, data) ==
    /\ Idle
    /\ service = "users"
    /\ Connected(s)
    /\ emitted' = IF data.targetUserId \in DOMAIN onlineUsers
                  THEN << Emit(onlineUsers[data.targetUserId], "iceCandidate",
                               [from |-> sockets[s].user, candidate |-> data.candidate]) >>
                  ELSE << >>
    /\ Step("iceCandidate", s, data)
    /\ UNCHANGED <<service, sockets, connections, onlineUsers, now>>

\* socket.on('disconnect') of the users service
UsersDisconnect(s) ==
    /\ Idle
    /\ service = "users"
    /\ Connected(s)
    /\ onlineUsers' = MapDelete(onlineUsers, sockets[s].user)
    /\ sockets' = [sockets EXCEPT ![s].status = "closed"]
    /\ emitted' = << >>
    /\ Step("disconnect", s, << >>)
    /\ UNCHANGED <<service, connections, now>>

\* ---------------------------------------------------------------- Next
CallUserData == [userToCall : Principals, from : Principals,
                 callType : CallTypes, signalData : Offers]
AnswerData == [to : Principals, signal : Answers]
CandidateData == [to : Principals, candidate : Candidates]
EndCallData ==
    [callId : StoredCallIds \cup {UnknownCallId}, to : {NoUser}, reason : {NoReason}]
    \cup [callId : {NoCallId}, to : Principals, reason : ClientReasons]
MessageData == [content : Contents]
\* A request that fails authentication never reaches msg.save().
PostData == {d \in [token : TokensOf(Principals), content : Contents, saved : BOOLEAN] :
                d.token.sig = "valid" \/ ~d.saved}
UsersCallData == [targetUserId : Principals, offer : Offers]
UsersAnswerData == [targetUserId : Principals, answer : Answers]
UsersCandidateData == [targetUserId : Principals, candidate : Candidates]

Next ==
    \/ Tick
    \/ Return
    \/ \E s \in Sockets : \E token \in TokensOf(ClientPrincipal[s]) : Connect(s, token)
    \/ \E s \in Sockets : \E data \in CallUserData : CallUser(s, data)
    \/ \E s \in Sockets : \E data \in AnswerData : AnswerCall(s, data)
    \/ \E s \in Sockets : \E data \in CandidateData : CallCandidate(s, data)
    \/ \E s \in Sockets : \E data \in EndCallData : EndCallEvent(s, data)
    \/ \E s \in Sockets : Disconnect(s)
    \/ \E s \in Sockets : \E message \in MessageData : SendMessage(s, message)
    \/ \E data \in PostData : PostMessage(data)
    \/ \E s \in Sockets : SocketError(s)
    \/ \E s \in Sockets : \E token \in TokensOf(ClientPrincipal[s]) : UsersConnect(s, token)
    \/ \E s \in Sockets : \E data \in UsersCallData : UsersCallUser(s, data)
    \/ \E s \in Sockets : \E data \in UsersAnswerData : UsersAnswerCall(s, data)
    \/ \E s \in Sockets : \E data \in UsersCandidateData : UsersIceCandidate(s, data)
    \/ \E s \in Sockets : UsersDisconnect(s)

Spec == Init /\ [][Next]_vars

\* ------------------------------------------------------------ properties
\* The registry of the service the process runs: the principals that have
\* an entry, and the handle stored under a principal.
Registered == IF service = "messages" THEN DOMAIN connections ELSE DOMAIN onlineUsers
RegisteredHandle(u) == IF service = "messages" THEN connections[u].socket ELSE onlineUsers[u]
\* The handle stored under a principal after the step.
NextHandle(u) == IF service = "messages" THEN connections'[u].socket ELSE onlineUsers'[u]
CallIdsOf(calls) == {calls[i].callId : i \in 1..Len(calls)}
SessionsWith(calls, other) == {i \in 1..Len(calls) : calls[i].otherParticipantId = other}
Matching(out, msg) == {i \in 1..Len(out) : out[i] = msg}
CallEnded(to, from, reason) == Emit(to, "callEnded", [from |-> from, reason |-> reason])
\* The principal bound to the socket whose event was handled last.
LastUser == sockets[last.socket].user
RemoveRan == service = "messages" /\ last.op \in {"disconnect", "error"}

\* C1 (cleanup cascade): when remove(A) runs for a registered principal A,
\* A has no registry entry afterwards, none of the sessions of A's call set
\* is stored anywhere, and every registered callee receives on its
\* registered handle exactly one call-ended {from: A, reason: REMOTE_ENDED}
\* per session A held with it, and nothing else is pushed.
CleanupCascade ==
    [][(RemoveRan' /\ Has(connections, LastUser'))
        => LET A == LastUser'
               old == connections[A].calls
           IN /\ ~Has(connections', A)
              /\ \A u \in DOMAIN connections' :
                    CallIdsOf(connections'[u].calls) \cap CallIdsOf(old) = {}
              /\ \A B \in DOMAIN connections :
                    Cardinality(Matching(emitted',
                        CallEnded(connections[B].socket, A, "REMOTE_ENDED")))
                    = Cardinality(SessionsWith(old, B))
              /\ Len(emitted')
                    = Cardinality({i \in 1..Len(old) :
                                     Has(connections, old[i].otherParticipantId)})]_vars

\* A disconnect has just ended two sessions of the leaving principal, held
\* with two different registered callees.
CleanupCascadeWitness ==
    /\ service = "messages"
    /\ last.op = "disconnect"
    /\ ~Has(connections, LastUser)
    /\ Len(emitted) = 2
    /\ sockets[emitted[1].to].user # sockets[emitted[2].to].user
    /\ \A i \in 1..2 : /\ emitted[i].event = "callEnded"
                        /\ emitted[i].payload = [from |-> LastUser, reason |-> "REMOTE_ENDED"]
                        /\ sockets[emitted[i].to].user # LastUser
                        /\ Has(connections, sockets[emitted[i].to].user)

\* C2 (a session is destroyed when either party disconnects): right after
\* the disconnect of a connection of principal P, no stored session names P
\* as its caller or as its callee.
NoSessionOutlivesParty ==
    (service = "messages" /\ last.op = "disconnect")
        => \A u \in DOMAIN connections : \A i \in 1..Len(connections[u].calls) :
              /\ u # LastUser
              /\ connections[u].calls[i].otherParticipantId # LastUser

\* C3 (hang-up by call ID): when A sends call-end with the ID of a session
\* of its call set whose callee B is registered, B receives call-ended
\* {from: A, reason: NORMAL} and the session leaves A's call set.
HangUpByIdIsNormal ==
    [][(service = "messages" /\ last'.op = "endCall" /\ last'.data.callId # NoCallId
        /\ Has(connections, LastUser')
        /\ CallsHas(connections[LastUser'].calls, last'.data.callId)
        /\ Has(connections,
               CallsGet(connections[LastUser'].calls, last'.data.callId).otherParticipantId))
        => LET A == LastUser'
               B == CallsGet(connections[A].calls, last'.data.callId).otherParticipantId
           IN /\ emitted' = << CallEnded(connections[B].socket, A, "NORMAL") >>
              /\ ~CallsHas(connections'[A].calls, last'.data.callId)]_vars

\* C4 (either party can end a call): when the callee B of a stored session
\* of caller A sends call-end with that session's ID, the session is stored
\* nowhere afterwards and A's registered handle receives a call-ended.
CalleeCanEndCall ==
    [][\A A \in DOMAIN connections :
         (service = "messages" /\ last'.op = "endCall" /\ last'.data.callId # NoCallId
          /\ CallsHas(connections[A].calls, last'.data.callId)
          /\ CallsGet(connections[A].calls, last'.data.callId).otherParticipantId = LastUser')
         => /\ \A u \in DOMAIN connections' :
                  ~CallsHas(connections'[u].calls, last'.data.callId)
            /\ \E i \in 1..Len(emitted') :
                  /\ emitted'[i].event = "callEnded"
                  /\ emitted'[i].to = connections[A].socket]_vars

\* C5 (unreachable callee, messages service): a callUser whose target has
\* no registry entry changes no registry entry or call set and pushes exactly
\* one notification, call-failed {USER_UNAVAILABLE}, to the sending socket;
\* and no step pushes a call-failed unless it is such a callUser.
UnreachableCallee ==
    [][/\ (service = "messages" /\ last'.op = "callUser"
            /\ ~Has(connections, last'.data.userToCall))
          => /\ connections' = connections
             /\ Len(emitted') = 1
             /\ emitted'[1].to = last'.socket
             /\ emitted'[1].event = "callFailed"
             /\ emitted'[1].payload.error = "USER_UNAVAILABLE"
       /\ \A i \in 1..Len(emitted') :
             emitted'[i].event = "callFailed"
             => /\ service = "messages"
                /\ last'.op = "callUser"
                /\ ~Has(connections, last'.data.userToCall)]_vars

\* A callUser addressed to an unregistered principal has just been answered
\* with call-failed on the sender's own socket.
UnreachableCalleeWitness ==
    /\ service = "messages"
    /\ last.op = "callUser"
    /\ ~Has(connections, last.data.userToCall)
    /\ Has(connections, LastUser)
    /\ Len(emitted) = 1
    /\ emitted[1].event = "callFailed"
    /\ emitted[1].to = last.socket

\* C6 (unreachable callee, users service): a callUser whose target is not in
\* onlineUsers is answered with a call-failed on the sending socket.
UsersUnreachableCallee ==
    (service = "users" /\ last.op = "callUser"
     /\ last.data.targetUserId \notin DOMAIN onlineUsers)
        => \E i \in 1..Len(emitted) :
              /\ emitted[i].event = "callFailed"
              /\ emitted[i].to = last.socket

\* C7 (every call-incoming is backed by a tracked session): when the
\* callUser handler has pushed call-incoming with call ID c, the caller's
\* registry entry stores a session keyed c with the callee.
IncomingBackedBySession ==
    (service = "messages" /\ last.op = "callUser")
        => \A i \in 1..Len(emitted) :
              emitted[i].event = "callIncoming"
              => /\ Has(connections, LastUser)
                 /\ CallsHas(connections[LastUser].calls, emitted[i].payload.callId)
                 /\ CallsGet(connections[LastUser].calls,
                             emitted[i].payload.callId).otherParticipantId
                       = last.data.userToCall

\* C8 (caller identity is authentic): the `from` of every incoming-call
\* notification is the authenticated principal of the socket that sent the
\* callUser event.
CallerIdentityAuthentic ==
    \A i \in 1..Len(emitted) :
        emitted[i].event \in {"callIncoming", "incomingCall"}
        => emitted[i].payload.from = LastUser

\* C9 (the registry reflects liveness): a principal has a registry entry
\* exactly when one of its connections is connected and not disconnected.
RegistryReflectsLiveness ==
    \A P \in Principals :
        P \in Registered <=> \E s \in Sockets : Connected(s) /\ sockets[s].user = P

\* C10 (single active connection per principal): a registration of P adds
\* at most the key P, leaves the other entries' handles alone and makes the
\* entry under P carry the registering handle; and a handle appears under a
\* key only by that principal's registration, so the entry under P always
\* carries the handle of P's most recent registration.
SingleEntryMostRecent ==
    [][/\ (last'.op = "connect" /\ sockets'[last'.socket].status = "connected")
          => /\ Registered' = Registered \cup {LastUser'}
             /\ NextHandle(LastUser') = last'.socket
             /\ \A u \in Registered \ {LastUser'} :
                   NextHandle(u) = RegisteredHandle(u)
       /\ \A P \in Registered' :
             (P \notin Registered \/ NextHandle(P) # RegisteredHandle(P))
             => /\ last'.op = "connect"
                /\ LastUser' = P
                /\ NextHandle(P) = last'.socket]_vars

\* Principal 1 has just registered a second time while its first connection
\* is still open: the entry carries the second handle.
SingleEntryMostRecentWitness ==
    /\ last.op = "connect"
    /\ Connected(last.socket)
    /\ \E s \in Sockets \ {last.socket} : Connected(s) /\ sockets[s].user = LastUser
    /\ LastUser \in Registered
    /\ RegisteredHandle(LastUser) = last.socket

\* C11 (broadcast exclusion): a new-message broadcast originated by
\* principal A, through the sendMessage socket event or through a stored
\* POST /api/messages, reaches the registered handle of every other
\* connection exactly once and never a connection of A itself (the sending
\* socket for sendMessage, A's sockets for the HTTP path).
BroadcastExclusion ==
    (service = "messages"
     /\ \/ last.op = "sendMessage"
        \/ last.op = "postMessage" /\ last.data.token.sig = "valid" /\ last.data.saved)
        => LET own == IF last.op = "sendMessage" THEN {last.socket}
                      ELSE {s \in Sockets : Connected(s)
                                             /\ sockets[s].user = last.data.token.user}
               got(s) == {i \in 1..Len(emitted) :
                            emitted[i].event = "newMessage" /\ emitted[i].to = s}
           IN /\ \A u \in DOMAIN connections :
                    connections[u].socket \notin own
                    => Cardinality(got(connections[u].socket)) = 1
              /\ \A s \in own : got(s) = {}

\* C12 (idempotent removal): remove(P) leaves P without a registry entry,
\* and a remove(P) that finds no entry, as the second of two in sequence
\* does, changes no registry state and pushes no notification.
IdempotentRemoval ==
    [][RemoveRan'
        => /\ ~Has(connections', LastUser')
           /\ ~Has(connections, LastUser')
                 => (connections' = connections /\ emitted' = << >>)]_vars

\* remove has just run for the principal of a connected socket, whose entry
\* an earlier remove had already deleted: nothing changed, nothing was pushed.
IdempotentRemovalWitness ==
    /\ RemoveRan
    /\ sockets[last.socket].user # NoUser
    /\ ~Has(last.before, LastUser)
    /\ TotalCalls(last.before) > 0
    /\ connections = last.before
    /\ emitted = << >>

\* C13 (authentication failure creates no state): in both services a
\* handshake whose token is missing or not signed with JWT_SECRET leaves
\* both registries unchanged, pushes nothing and leaves the connection
\* rejected for good; and every socket event that is handled comes from a
\* connection that passed the handshake.
AuthFailureNoState ==
    [][/\ (last'.op = "connect" /\ last'.data.token.sig # "valid")
          => /\ connections' = connections
             /\ onlineUsers' = onlineUsers
             /\ emitted' = << >>
             /\ sockets'[last'.socket] = [status |-> "rejected", user |-> NoUser]
       /\ last'.op \notin {"idle", "connect", "postMessage"}
          => sockets[last'.socket].status = "connected"
       /\ \A s \in Sockets :
             sockets[s].status = "rejected" => sockets'[s] = sockets[s]]_vars

\* A handshake with a forged token has just been refused while other
\* principals are registered: the registry is as it was.
AuthFailureNoStateWitness ==
    /\ service = "messages"
    /\ last.op = "connect"
    /\ last.data.token.sig = "forged"
    /\ sockets[last.socket].status = "rejected"
    /\ connections # << >>
    /\ connections = last.before

\* C14 (end on an unknown call ID is a no-op): an endCall event whose call
\* ID is not a key of the sender's own call set, the sender having a
\* registry entry or not, changes no registry entry or call set and pushes
\* no notification.
EndUnknownIsNoOp ==
    [][(service = "messages" /\ last'.op = "endCall" /\ last'.data.callId # NoCallId
        /\ ~(/\ Has(connections, LastUser')
             /\ CallsHas(connections[LastUser'].calls, last'.data.callId)))
        => (connections' = connections /\ emitted' = << >>)]_vars

\* A principal that holds sessions has just sent endCall with a call ID that
\* was never minted: its call set is as it was and nothing was pushed.
EndUnknownIsNoOpWitness ==
    /\ service = "messages"
    /\ last.op = "endCall"
    /\ last.data.callId = UnknownCallId
    /\ Has(last.before, LastUser)
    /\ last.before[LastUser].calls # << >>
    /\ connections = last.before
    /\ emitted = << >>

RelayOps == {"answerCall", "callCandidate", "iceCandidate"}
\* The principal a relayed event is addressed to, and the notification the
\* target is to receive for it, per service.
RelayTarget(d) == IF service = "messages" THEN d.to ELSE d.targetUserId
RelayNotification(op, d, to, from) ==
    IF service = "messages"
    THEN IF op = "answerCall"
         THEN Emit(to, "callAnswered", [signal |-> d.signal, from |-> from])
         ELSE Emit(to, "callCandidate", [candidate |-> d.candidate, from |-> from])
    ELSE IF op = "answerCall"
         THEN Emit(to, "callAnswered", [from |-> from, answer |-> d.answer])
         ELSE Emit(to, "iceCandidate", [from |-> from, candidate |-> d.candidate])

\* C15 (mid-call relay): an answer or ICE-candidate event from a connection,
\* addressed to principal T, is forwarded as exactly one notification to T's
\* registered handle, with from equal to the sender's authenticated principal
\* and the payload unchanged, when T is registered; when T is not registered
\* nothing is pushed to anyone; in both cases the registries are unchanged.
MidCallRelay ==
    [][last'.op \in RelayOps
        => /\ connections' = connections
           /\ onlineUsers' = onlineUsers
           /\ IF RelayTarget(last'.data) \in Registered
              THEN emitted' = << RelayNotification(last'.op, last'.data,
                                     RegisteredHandle(RelayTarget(last'.data)),
                                     sockets[last'.socket].user) >>
              ELSE emitted' = << >>]_vars

\* An answer addressed to another, registered principal has just been relayed
\* to that principal's handle.
MidCallRelayWitness ==
    /\ service = "messages"
    /\ last.op = "answerCall"
    /\ last.data.to \in Registered
    /\ last.data.to # LastUser
    /\ Len(emitted) = 1
    /\ emitted[1].to = connections[last.data.to].socket
    /\ emitted[1].to # last.socket
    /\ emitted[1].payload.from = LastUser

\* C16 (no de-duplication of calls): when a registered caller that already
\* holds an open session with a registered callee sends another callUser to
\* that callee, its call set gains one more session under a call ID it did
\* not hold before, whatever the time elapsed since the first event.
NoCallDeduplication ==
    [][(/\ service = "messages"
        /\ last'.op = "callUser"
        /\ Has(connections, LastUser')
        /\ Has(connections, last'.data.userToCall)
        /\ last'.data.userToCall # LastUser'
        /\ SessionsWith(connections[LastUser'].calls, last'.data.userToCall) # {})
        => /\ Has(connections', LastUser')
           /\ Len(connections'[LastUser'].calls) = Len(connections[LastUser'].calls) + 1
           /\ Cardinality(CallIdsOf(connections'[LastUser'].calls))
                 = Cardinality(CallIdsOf(connections[LastUser'].calls)) + 1]_vars

\* Call IDs stored under principals other than u.
CallIdsOfOthers(conns, u) ==
    UNION {CallIdsOf(conns[v].calls) : v \in DOMAIN conns \ {u}}

\* C17 (independent concurrent callers): a callUser from a registered caller
\* to a registered callee succeeds whatever sessions other callers hold with
\* that callee: the callee's handle gets exactly one callIncoming, whose call
\* ID is stored in the caller's own call set and differs from every call ID
\* stored under another caller, the other callers' entries are untouched and
\* nobody gets callFailed.
IndependentCallers ==
    [][(/\ service = "messages"
        /\ last'.op = "callUser"
        /\ Has(connections, LastUser')
        /\ Has(connections, last'.data.userToCall))
        => /\ Len(emitted') = 1
           /\ emitted'[1].event = "callIncoming"
           /\ emitted'[1].to = connections[last'.data.userToCall].socket
           /\ Has(connections', LastUser')
           /\ emitted'[1].payload.callId \in CallIdsOf(connections'[LastUser'].calls)
           /\ emitted'[1].payload.callId \notin CallIdsOfOthers(connections', LastUser')
           /\ \E i \in SessionsWith(connections'[LastUser'].calls, last'.data.userToCall) :
                 connections'[LastUser'].calls[i].callId = emitted'[1].payload.callId
           /\ DOMAIN connections' = DOMAIN connections
           /\ \A v \in DOMAIN connections \ {LastUser'} : connections'[v] = connections[v]]_vars

\* A second caller has just called a callee with whom a different caller
\* already holds an open session: both callers now hold a session with it.
IndependentCallersWitness ==
    /\ service = "messages"
    /\ last.op = "callUser"
    /\ Has(last.before, LastUser)
    /\ Has(last.before, last.data.userToCall)
    /\ last.data.userToCall # LastUser
    /\ \E v \in DOMAIN last.before \ {LastUser, last.data.userToCall} :
          /\ SessionsWith(last.before[v].calls, last.data.userToCall) # {}
          /\ SessionsWith(connections[v].calls, last.data.userToCall) # {}
    /\ SessionsWith(connections[LastUser].calls, last.data.userToCall) # {}
    /\ Len(emitted) = 1
    /\ emitted[1].event = "callIncoming"

\* The session stored under principal u with call ID c is no longer
\* retrievable after the step.
SessionLost(u, c) ==
    /\ Has(connections, u)
    /\ c \in CallIdsOf(connections[u].calls)
    /\ ~(Has(connections', u) /\ c \in CallIdsOf(connections'[u].calls))

\* The step handled a call-end for call ID c, or the end (disconnect or
\* transport error) of a connection of principal u or of principal other.
EndedOrPartyLeft(u, other, c) ==
    \/ last'.op = "endCall" /\ last'.data.callId = c
    \/ last'.op \in {"disconnect", "error"} /\ LastUser' \in {u, other}

\* C18 (no timeout, no silent disappearance), as stated: a session, once
\* created, stays retrievable in the caller's call set until a call-end for
\* it is processed or one of its two parties disconnects; no other event,
\* a new registration included, removes it.
SessionStaysUntilEnded ==
    [][service = "messages" =>
        \A u \in DOMAIN connections : \A i \in 1..Len(connections[u].calls) :
            LET e == connections[u].calls[i]
            IN SessionLost(u, e.callId)
               => EndedOrPartyLeft(u, e.otherParticipantId, e.callId)]_vars

\* C18, amended: a session, once created, stays retrievable in the caller's
\* call set until a call-end for it is processed, one of its two parties
\* disconnects or has a transport error, or the caller registers again; no
\* other event (answer, candidate, broadcast, another call, a registration
\* of another principal, the passing of time) removes it.
SessionStaysUntilEndedOrReplaced ==
    [][service = "messages" =>
        \A u \in DOMAIN connections : \A i \in 1..Len(connections[u].calls) :
            LET e == connections[u].calls[i]
            IN SessionLost(u, e.callId)
               => \/ EndedOrPartyLeft(u, e.otherParticipantId, e.callId)
                  \/ last'.op = "connect" /\ LastUser' = u]_vars

\* A session minted at an earlier clock value is still in its caller's call
\* set right after a new registration of its callee.
SessionStaysWitness ==
    /\ service = "messages"
    /\ last.op = "connect"
    /\ sockets[last.socket].status = "connected"
    /\ \E u \in DOMAIN last.before \ {LastUser} :
          /\ Has(connections, u)
          /\ \E i \in SessionsWith(last.before[u].calls, LastUser) :
                /\ last.before[u].calls[i].startTime < now
                /\ last.before[u].calls[i].callId \in CallIdsOf(connections[u].calls)

\* C19 (replace on re-register): a registration of P, whatever entry and
\* open sessions P had, leaves under P an entry with the registering handle
\* and an empty call set, pushes no notification (no callEnded for the old
\* sessions), and leaves the entries of the other principals unchanged.
ReplaceOnReRegister ==
    [][(/\ service = "messages"
        /\ last'.op = "connect"
        /\ sockets'[last'.socket].status = "connected")
        => /\ DOMAIN connections' = DOMAIN connections \cup {LastUser'}
           /\ connections'[LastUser'] = [socket |-> last'.socket, calls |-> << >>]
           /\ emitted' = << >>
           /\ \A v \in DOMAIN connections \ {LastUser'} :
                 connections'[v] = connections[v]]_vars

\* A principal that held an open session with a registered callee has just
\* registered again on another connection: its call set is empty and nothing
\* was pushed.
ReplaceOnReRegisterWitness ==
    /\ service = "messages"
    /\ last.op = "connect"
    /\ Has(last.before, LastUser)
    /\ last.before[LastUser].socket # last.socket
    /\ \E i \in 1..Len(last.before[LastUser].calls) :
          /\ last.before[LastUser].calls[i].otherParticipantId # LastUser
          /\ Has(last.before, last.before[LastUser].calls[i].otherParticipantId)
    /\ connections[LastUser] = [socket |-> last.socket, calls |-> << >>]
    /\ emitted = << >>

\* What a graceful disconnect of a connection of principal u is to leave
\* behind: the registry without u's entry, and one REMOTE_ENDED callEnded per
\* session of u's call set whose other party is registered, in the order of
\* the call set.
CleanupRegistry(conns, u) == [v \in DOMAIN conns \ {u} |-> conns[v]]
CleanupNotices(conns, u) ==
    IF u \in DOMAIN conns
    THEN LET live == SelectSeq(conns[u].calls,
                               LAMBDA e : e.otherParticipantId \in DOMAIN conns)
         IN [i \in 1..Len(live) |->
                CallEnded(conns[live[i].otherParticipantId].socket, u, "REMOTE_ENDED")]
    ELSE << >>

\* C20 (a transport error is treated as a graceful disconnect): from any
\* state, handling an error event on a connection and handling the
\* disconnect of that connection leave the same registry (the entry of the
\* bound principal removed) and push the same callEnded notifications (one
\* per ended session of its call set).
ErrorSameAsDisconnect ==
    [][RemoveRan'
        => /\ connections' = CleanupRegistry(connections, LastUser')
           /\ emitted' = CleanupNotices(connections, LastUser')]_vars

\* An error event on the connection of a principal holding an open session
\* has just removed its entry and notified the other party.
ErrorSameAsDisconnectWitness ==
    /\ service = "messages"
    /\ last.op = "error"
    /\ Has(last.before, LastUser)
    /\ last.before[LastUser].calls # << >>
    /\ ~Has(connections, LastUser)
    /\ Len(emitted) >= 1
    /\ emitted[1].event = "callEnded"
    /\ sockets[emitted[1].to].user # LastUser

\* C21 (UNAUTHENTICATED -> REGISTERED -> CLOSED): once the termination
\* handling of a connection (its disconnect or error event) has run registry
\* remove for its principal, the connection is closed: it is no longer a
\* connected socket, the only kind whose inbound events the handlers route.
ClosedAfterTermination ==
    RemoveRan => ~Connected(last.socket)

\* C22 (signal forwarding is not gated on call state): whatever sessions are
\* stored, and whether or not one exists between sender and target, an
\* answer or ICE-candidate event addressed to a registered principal pushes
\* a notification to that principal's handle.
ForwardingNotGated ==
    [][(last'.op \in RelayOps /\ RelayTarget(last'.data) \in Registered)
        => \E i \in 1..Len(emitted') :
              /\ emitted'[i].to = RegisteredHandle(RelayTarget(last'.data))
              /\ emitted'[i].event \in {"callAnswered", "callCandidate", "iceCandidate"}]_vars

\* An ICE candidate has just been relayed between two principals while no
\* session is stored under any principal.
ForwardingNotGatedWitness ==
    /\ service = "messages"
    /\ last.op = "callCandidate"
    /\ last.data.to # LastUser
    /\ Has(connections, last.data.to)
    /\ TotalCalls(connections) = 0
    /\ Len(emitted) = 1
    /\ emitted[1].event = "callCandidate"
    /\ emitted[1].to = connections[last.data.to].socket

\* C23 (termination of a connection affects only state that this connection
\* created): when the entry of the terminating connection's principal holds
\* the handle of another, newer connection, the disconnect or error of the
\* superseded connection leaves that entry and its call set in place and
\* pushes no callEnded for its sessions.
SupersededTerminationIsLocal ==
    [][(/\ last'.op \in {"disconnect", "error"}
        /\ LastUser' \in Registered
        /\ RegisteredHandle(LastUser') # last'.socket)
        => /\ connections' = connections
           /\ onlineUsers' = onlineUsers
           /\ emitted' = << >>]_vars

\* C24 (the registry never holds the handle of a closed connection): in
\* every state of either service each registry entry's handle belongs to a
\* connection that has connected and not yet disconnected, and no
\* notification is pushed to a connection that has already disconnected.
NoHandleOfClosedConnection ==
    /\ \A u \in Registered : Connected(RegisteredHandle(u))
    /\ \A i \in 1..Len(emitted) : Connected(emitted[i].to)

\* C25 (at most one call-ended per call): a call-end without call ID,
\* addressed by target user, that notifies the target also removes the
\* sender's sessions with that target, so that neither a later call-end by
\* ID nor the sender's disconnect notifies the target a second time for them.
FallbackEndRemovesSession ==
    [][(/\ service = "messages"
        /\ last'.op = "endCall"
        /\ last'.data.callId = NoCallId
        /\ last'.data.to # LastUser'
        /\ Has(connections, LastUser')
        /\ SessionsWith(connections[LastUser'].calls, last'.data.to) # {}
        /\ \E i \in 1..Len(emitted') : emitted'[i].event = "callEnded")
        => /\ Has(connections', LastUser')
           /\ SessionsWith(connections'[LastUser'].calls, last'.data.to) = {}]_vars

\* C26 (a third party cannot end someone else's call by ID): an endCall
\* carrying the call ID of a stored session, sent by a connection whose
\* principal is neither the caller nor the callee of that session, leaves
\* the session stored and pushes no callEnded to either of its parties.
ThirdPartyCannotEnd ==
    [][(service = "messages" /\ last'.op = "endCall" /\ last'.data.callId # NoCallId)
        => \A u \in DOMAIN connections : \A i \in 1..Len(connections[u].calls) :
              LET e == connections[u].calls[i]
              IN (e.callId = last'.data.callId
                  /\ LastUser' \notin {u, e.otherParticipantId})
                 => /\ Has(connections', u)
                    /\ e.callId \in CallIdsOf(connections'[u].calls)
                    /\ \A k \in 1..Len(emitted') :
                          emitted'[k].event = "callEnded"
                          => sockets[emitted'[k].to].user \notin {u, e.otherParticipantId}]_vars

\* A principal that is neither party of a stored session between two other
\* registered principals has just sent endCall with that session's call ID:
\* the session is still stored and nothing was pushed.
ThirdPartyCannotEndWitness ==
    /\ service = "messages"
    /\ last.op = "endCall"
    /\ last.data.callId # NoCallId
    /\ \E u \in DOMAIN connections \ {LastUser} :
          \E i \in 1..Len(connections[u].calls) :
             /\ connections[u].calls[i].callId = last.data.callId
             /\ connections[u].calls[i].otherParticipantId \notin {u, LastUser}
             /\ Has(connections, connections[u].calls[i].otherParticipantId)
    /\ connections = last.before
    /\ emitted = << >>

====
